---- MODULE Spec2Model ----
(***************************************************************************)
(* Model of src/api/endpoints/scrapper.py: the enrichment function         *)
(* enrich_data and the request handler run_scrapper that calls it.         *)
(*                                                                         *)
(* Sentiment polarities are fixed-point integers in units of 1e-4; a value *)
(* rounded to 3 decimals is an integer number of thousandths.              *)
(* Strings that are only compared are TLA+ strings; noun-chunk texts, whose*)
(* length and case the code inspects, are sequences of characters.         *)
(***************************************************************************)
EXTENDS Integers, Sequences, FiniteSets, TLC

VARIABLES
    data,              \* argument of the current enrich_data call
    pc,                \* position inside enrich_data
    i,                 \* number of elements of data the for loop has consumed
    enriched_items,    \* local list enriched_items
    sentiment_scores,  \* local list sentiment_scores
    text_content,      \* local text_content of the last dict the loop examined
    result,            \* EnrichedData returned by the call (NoResult before)
    error,             \* exception that left enrich_data ("none" if none)
    hashseed,          \* string-hash seed of the interpreter process
    calls,             \* number of enrich_data calls started on this input
    prev,              \* outcome the caller got from the previous call
    hpc,               \* position inside run_scrapper
    media_only,        \* ScrapperAction.media_only of the request
    file_exists,       \* whether the scraper's JSON file is on disk
    file_written,      \* whether the subprocess wrote the JSON file
    json_data,         \* payload decoded from the file
    remove_called,     \* os.remove(file_path) has been called
    status,            \* HTTP status of the raised HTTPException (0: none)
    response           \* dictionary returned by run_scrapper

vars == <<data, pc, i, enriched_items, sentiment_scores, text_content, result, error,
          hashseed, calls, prev, hpc, media_only, file_exists, file_written,
          json_data, remove_called, status, response>>

handlerVars == <<hpc, media_only, file_exists, file_written, json_data,
                 remove_called, status, response>>

-----------------------------------------------------------------------------
(* Bounds *)

MaxLen == 3        \* longest input list built from Pool
MaxSeed == 1       \* hash seeds are 0..MaxSeed

(* Program constants *)

KeywordLimit == 10 \* keywords[:10]
MinChunkLen == 2   \* len(chunk.text) > 2
Decimals == 10     \* round(x, 3): 10 units of 1e-4 per thousandth

-----------------------------------------------------------------------------
(* Python values of a record's fields *)

Absent == [kind |-> "absent", s |-> "", n |-> 0]
Null == [kind |-> "null", s |-> "", n |-> 0]
Str(x) == [kind |-> "str", s |-> x, n |-> 0]
Num(x) == [kind |-> "num", s |-> "", n |-> x]

CandidateKeys == <<"text", "content", "description", "title">>

\* bool(v): None, '' and 0 are falsy
Truthy(v) ==
    \/ v.kind = "str" /\ v.s # ""
    \/ v.kind = "num" /\ v.n # 0

\* item.get(key, '')
Get(item, key) ==
    IF item.f[key].kind = "absent" THEN Str("") ELSE item.f[key]

Fields(t, c, d, ti) ==
    [text |-> t, content |-> c, description |-> d, title |-> ti]

\* an element of the input list: a dict (with its candidate fields and one
\* further key: none, a string key, or an integer key) or something else
Dict(t, c, d, ti, x) == [kind |-> "dict", f |-> Fields(t, c, d, ti), extra |-> x]
NonDict(k) == [kind |-> k, f |-> Fields(Absent, Absent, Absent, Absent), extra |-> "none"]

List(es) == [kind |-> "list", elems |-> es]
NonList(k) == [kind |-> k, elems |-> <<>>]

-----------------------------------------------------------------------------
(* The analysers nlp (spaCy) and TextBlob, as deterministic functions of   *)
(* the text they are given.                                                *)

\* nlp(text_content) raises: non-string argument, or an internal error
NlpRaises(v) == v.kind # "str" \/ v.s = "early"
\* TextBlob(text_content).sentiment raises
BlobRaises(s) == s = "blob"
\* iterating doc.ents raises
EntsRaises(s) == s = "ents"
\* iterating doc.noun_chunks raises
ChunksRaises(s) == s = "late"

\* TextBlob(text).sentiment.polarity, in units of 1e-4, within [-10000, 10000]
Polarity(s) ==
    CASE s = "love" -> 5004
      [] s = "hate" -> -7996
      [] s = "many" -> 2016
      [] s = "late" -> -3004
      [] s = "ents" -> 1236
      [] OTHER -> 0

\* doc.ents
DocEnts(s) ==
    CASE s = "hate" -> <<[text |-> "Paris", label |-> "GPE", start |-> 2, end |-> 7]>>
      [] s = "many" -> <<[text |-> "Obama", label |-> "PERSON", start |-> 0, end |-> 5],
                         [text |-> "Paris", label |-> "GPE", start |-> 14, end |-> 19]>>
      [] OTHER -> <<>>

\* [chunk.text for chunk in doc.noun_chunks]
NounChunks(s) ==
    CASE s = "love" -> << <<"B">>, <<"a", "b", "c">>, <<"A", "B", "c">>, <<"a", "b">> >>
      [] s = "hate" -> << <<"I_DOT", "a", "b">>, <<"A", "I_DOT">>, <<"c", "c", "c">> >>
      [] s = "many" -> << <<"a", "a", "a">>, <<"a", "a", "b">>, <<"a", "a", "c">>,
                          <<"a", "b", "a">>, <<"A", "a", "a">>, <<"a", "b", "b">>,
                          <<"a", "b", "c">>, <<"a", "c">>, <<"a", "c", "a">>,
                          <<"a", "c", "b">>, <<"a", "c", "c">>, <<"b", "a", "a">>,
                          <<"b", "a", "b">>, <<"B", "A", "B">>, <<"b", "a", "c">> >>
      [] OTHER -> <<>>

-----------------------------------------------------------------------------
(* str.lower, len, set and list on chunk texts *)

Alphabet == <<"a", "b", "c", "A", "B", "I_DOT", "i", "dot">>

CharCode(c) == CHOOSE k \in 1..Len(Alphabet) : Alphabet[k] = c

\* lower-case mapping of one character; U+0130 lowers to two characters
LowerChar(c) ==
    CASE c = "A" -> <<"a">>
      [] c = "B" -> <<"b">>
      [] c = "I_DOT" -> <<"i", "dot">>
      [] OTHER -> <<c>>

RECURSIVE Lower(_)
Lower(s) == IF s = <<>> THEN <<>> ELSE LowerChar(Head(s)) \o Lower(Tail(s))

\* hash(str) under the process's hash seed, reduced to a table slot
RECURSIVE StrHash(_, _)
StrHash(seed, s) ==
    IF s = <<>> THEN (7 * seed + 3) % 16
    ELSE (5 * StrHash(seed, SubSeq(s, 1, Len(s) - 1)) + (seed + 1) * CharCode(s[Len(s)])) % 16

SeqContains(q, x) == \E k \in 1..Len(q) : q[k] = x

\* insert x into q, which is ordered by slot; equal slots keep insertion order
RECURSIVE SlotInsert(_, _, _)
SlotInsert(seed, q, x) ==
    IF q = <<>> THEN <<x>>
    ELSE IF StrHash(seed, x) < StrHash(seed, Head(q)) THEN <<x>> \o q
    ELSE <<Head(q)>> \o SlotInsert(seed, Tail(q), x)

\* list(set(gen)): the distinct strings of gen in table order
RECURSIVE ListOfSet(_, _)
ListOfSet(seed, gen) ==
    IF gen = <<>> THEN <<>>
    ELSE LET rest == ListOfSet(seed, SubSeq(gen, 1, Len(gen) - 1))
             x == gen[Len(gen)]
         IN IF SeqContains(rest, x) THEN rest ELSE SlotInsert(seed, rest, x)

\* variant: the filter is len(chunk.text) >= 2
RECURSIVE KeywordGenAtLeast(_)
KeywordGenAtLeast(chunks) ==
    IF chunks = <<>> THEN <<>>
    ELSE IF Len(Head(chunks)) >= MinChunkLen
         THEN <<Lower(Head(chunks))>> \o KeywordGenAtLeast(Tail(chunks))
         ELSE KeywordGenAtLeast(Tail(chunks))

\* chunk.text.lower() for chunk in doc.noun_chunks if len(chunk.text) > 2
RECURSIVE KeywordGen(_)
KeywordGen(chunks) ==
    IF chunks = <<>> THEN <<>>
    ELSE IF Len(Head(chunks)) > MinChunkLen
         THEN <<Lower(Head(chunks))>> \o KeywordGen(Tail(chunks))
         ELSE KeywordGen(Tail(chunks))

Take(q, n) == SubSeq(q, 1, IF Len(q) < n THEN Len(q) ELSE n)

\* keywords[:10] of list(set(...))
Keywords(seed, s) == Take(ListOfSet(seed, KeywordGen(NounChunks(s))), KeywordLimit)

-----------------------------------------------------------------------------
(* round(x, 3) of the rational num/den (units of 1e-4), in thousandths;    *)
(* an exact tie goes to the even neighbour                                 *)

Round3(num, den) ==
    LET twice == 2 * num + Decimals * den
        q == twice \div (2 * Decimals * den)
    IN IF twice % (2 * Decimals * den) = 0 /\ q % 2 # 0 THEN q - 1 ELSE q

RECURSIVE Sum(_)
Sum(q) == IF q = <<>> THEN 0 ELSE Head(q) + Sum(Tail(q))

-----------------------------------------------------------------------------
(* EnrichedItem and EnrichedData *)

\* pydantic validation of EnrichedItem: original_item is Dict[str, Any], so a
\* key that is not a string is rejected (the other fields are always
\* well-typed where the constructor is called)
EnrichedItemValid(item) == item.extra # "int"

EnrichedItem(item, sent, ents, kws) ==
    [original_item |-> item, sentiment |-> sent, entities |-> ents, keywords |-> kws]

\* EnrichedItem(original_item=item, sentiment=0.0, entities=[], keywords=[])
ZeroItem(item) == EnrichedItem(item, 0, <<>>, <<>>)

NoResult == [items |-> <<>>, total_items |-> -1, average_sentiment |-> 0]

\* no dictionary has been returned by run_scrapper
NoResponse == [success |-> FALSE, scraped_data |-> NoResult, actual_items |-> 0]

\* variant: total_items counts the elements of the input
EnrichedDataCountsInput(items, avg) ==
    [items |-> items, total_items |-> Len(data.elems), average_sentiment |-> avg]

EnrichedData(items, avg) ==
    [items |-> items, total_items |-> Len(items), average_sentiment |-> avg]

-----------------------------------------------------------------------------
(* enrich_data *)

\* variant: content is tried before text
TextContentContentFirst(item) ==
    IF Truthy(Get(item, "content")) THEN Get(item, "content")
    ELSE IF Truthy(Get(item, "text")) THEN Get(item, "text")
    ELSE IF Truthy(Get(item, "description")) THEN Get(item, "description")
    ELSE IF Truthy(Get(item, "title")) THEN Get(item, "title")
    ELSE Str("")

\* item.get('text', '') or item.get('content', '') or
\* item.get('description', '') or item.get('title', '') or ''
TextContent(item) ==
    IF Truthy(Get(item, "text")) THEN Get(item, "text")
    ELSE IF Truthy(Get(item, "content")) THEN Get(item, "content")
    ELSE IF Truthy(Get(item, "description")) THEN Get(item, "description")
    ELSE IF Truthy(Get(item, "title")) THEN Get(item, "title")
    ELSE Str("")

\* the try block raises before sentiment_scores.append(sentiment)
RaisesBeforeAppend(tc) == NlpRaises(tc) \/ BlobRaises(tc.s)

\* the try block raises after sentiment_scores.append(sentiment)
RaisesAfterAppend(item, tc) ==
    /\ ~RaisesBeforeAppend(tc)
    /\ (EntsRaises(tc.s) \/ ChunksRaises(tc.s) \/ ~EnrichedItemValid(item))

\* the try block runs to its end
AnalysisSucceeds(item, tc) == ~RaisesBeforeAppend(tc) /\ ~RaisesAfterAppend(item, tc)

\* the item the try block appends when it succeeds
AnalysedItem(seed, item, tc) ==
    EnrichedItem(item, Round3(Polarity(tc.s), 1), DocEnts(tc.s), Keywords(seed, tc.s))

\* sentiment_scores after the try block and its handler
ScoresAfter(scores, item, tc) ==
    IF RaisesBeforeAppend(tc) THEN scores ELSE Append(scores, Polarity(tc.s))

\* variant: the scores are rounded before they are averaged
AvgSentimentOfRounded(scores) ==
    IF scores # <<>>
    THEN Round3(Decimals * Sum([k \in 1..Len(scores) |-> Round3(scores[k], 1)]), Len(scores))
    ELSE 0

\* avg_sentiment
AvgSentiment(scores) ==
    IF scores # <<>> THEN Round3(Sum(scores), Len(scores)) ELSE 0

\* variant: a single mapping passes the check
IsListOrDict(d) == d.kind \in {"list", "dict"}

\* isinstance(data, list)
IsList(d) == d.kind = "list"

\* isinstance check and creation of the two lists
EnrichEnter ==
    /\ pc = "call"
    /\ IF ~IsList(data)
       THEN /\ pc' = "raised"
            /\ error' = "ValueError"
            /\ UNCHANGED <<enriched_items, sentiment_scores>>
       ELSE /\ pc' = "loop"
            /\ enriched_items' = <<>>
            /\ sentiment_scores' = <<>>
            /\ UNCHANGED error
    /\ UNCHANGED <<data, i, text_content, result, hashseed, calls, prev>>
    /\ UNCHANGED handlerVars

\* one iteration of "for item in data"
EnrichIterate ==
    /\ pc = "loop"
    /\ i < Len(data.elems)
    /\ LET item == data.elems[i + 1]
           tc == TextContent(item)
       IN IF item.kind # "dict"
          THEN /\ pc' = "loop"
               /\ UNCHANGED <<enriched_items, sentiment_scores, text_content, error>>
          ELSE /\ text_content' = tc
               /\ IF ~Truthy(tc)
                  THEN /\ UNCHANGED sentiment_scores
                       /\ IF EnrichedItemValid(item)
                          THEN /\ enriched_items' = Append(enriched_items, ZeroItem(item))
                               /\ pc' = "loop"
                               /\ UNCHANGED error
                          ELSE /\ pc' = "raised"
                               /\ error' = "ValidationError"
                               /\ UNCHANGED enriched_items
                  ELSE /\ sentiment_scores' = ScoresAfter(sentiment_scores, item, tc)
                       /\ IF AnalysisSucceeds(item, tc)
                          THEN /\ enriched_items' =
                                     Append(enriched_items, AnalysedItem(hashseed, item, tc))
                               /\ pc' = "loop"
                               /\ UNCHANGED error
                          ELSE IF EnrichedItemValid(item)
                          THEN /\ enriched_items' = Append(enriched_items, ZeroItem(item))
                               /\ pc' = "loop"
                               /\ UNCHANGED error
                          ELSE /\ pc' = "raised"
                               /\ error' = "ValidationError"
                               /\ UNCHANGED enriched_items
    /\ i' = i + 1
    /\ UNCHANGED <<data, result, hashseed, calls, prev>>
    /\ UNCHANGED handlerVars

\* average and construction of the EnrichedData that is returned
EnrichReturn ==
    /\ pc = "loop"
    /\ i = Len(data.elems)
    /\ result' = EnrichedData(enriched_items, AvgSentiment(sentiment_scores))
    /\ pc' = "returned"
    /\ UNCHANGED <<data, i, enriched_items, sentiment_scores, text_content, error, hashseed, calls, prev>>
    /\ UNCHANGED handlerVars

-----------------------------------------------------------------------------
(* Callers of enrich_data outside the handler: the same input is passed    *)
(* again, in the same interpreter process or after the service restarted.  *)

CallOutcome == [pc |-> pc, result |-> result, error |-> error, seed |-> hashseed]
NoOutcome == [pc |-> "none", result |-> NoResult, error |-> "none", seed |-> 0]

HashSeeds == 0..MaxSeed

\* a second call enrich_data(data) in the same process
CallAgain ==
    /\ hpc = "direct"
    /\ calls = 1
    /\ pc \in {"returned", "raised"}
    /\ prev' = CallOutcome
    /\ calls' = 2
    /\ pc' = "call"
    /\ i' = 0
    /\ result' = NoResult
    /\ error' = "none"
    /\ UNCHANGED <<data, enriched_items, sentiment_scores, text_content, hashseed>>
    /\ UNCHANGED handlerVars

\* the module is imported by a new interpreter process (new hash seed), which
\* then calls enrich_data(data)
RestartAndCall ==
    /\ hpc = "direct"
    /\ calls = 1
    /\ pc \in {"returned", "raised"}
    /\ prev' = CallOutcome
    /\ calls' = 2
    /\ pc' = "call"
    /\ i' = 0
    /\ result' = NoResult
    /\ error' = "none"
    /\ enriched_items' = <<>>
    /\ sentiment_scores' = <<>>
    /\ hashseed' \in HashSeeds \ {hashseed}
    /\ UNCHANGED <<data, text_content>>
    /\ UNCHANGED handlerVars

-----------------------------------------------------------------------------
(* Inputs *)

\* elements of the lists of length up to MaxLen
Pool ==
    { NonDict("str"),
      Dict(Str("love"), Absent, Absent, Absent, "none"),
      Dict(Str("hate"), Absent, Absent, Absent, "str"),
      Dict(Str(""), Str("many"), Absent, Absent, "none"),
      Dict(Absent, Absent, Absent, Str("late"), "none"),
      Dict(Num(7), Absent, Absent, Absent, "none"),
      Dict(Absent, Absent, Absent, Absent, "str"),
      Dict(Str("love"), Absent, Absent, Absent, "int") }

PoolLists == UNION { [1..n -> Pool] : n \in 0..MaxLen }

TextValues == { Absent, Null, Str(""), Num(0), Num(7), Str("love"), Str("hate"),
                Str("many"), Str("early"), Str("blob"), Str("ents"), Str("late") }
ContentValues == { Absent, Null, Str(""), Num(0), Num(7), Str("hate") }
DescriptionValues == { Absent, Null, Str(""), Str("many") }
TitleValues == { Absent, Null, Str(""), Str("late") }

\* single records over all combinations of candidate field values
FieldRecords ==
    { Dict(t, c, d, ti, "none") :
        t \in TextValues, c \in ContentValues, d \in DescriptionValues, ti \in TitleValues }

EmptyKeyRecords == { Dict(Absent, Absent, Absent, Absent, "int") }

NonLists == { NonList("dict"), NonList("str"), NonList("num"), NonList("null") }

Inputs ==
    { List(es) : es \in PoolLists }
      \cup { List(<<r>>) : r \in FieldRecords \cup EmptyKeyRecords }
      \cup NonLists

Init ==
    /\ data \in Inputs
    /\ hashseed \in HashSeeds
    /\ pc = "call"
    /\ i = 0
    /\ enriched_items = <<>>
    /\ sentiment_scores = <<>>
    /\ text_content = Str("")
    /\ result = NoResult
    /\ error = "none"
    /\ calls = 1
    /\ prev = NoOutcome
    /\ hpc = "direct"
    /\ media_only = FALSE
    /\ file_exists = FALSE
    /\ file_written = FALSE
    /\ json_data = NonList("null")
    /\ remove_called = FALSE
    /\ status = 0
    /\ response = NoResponse

\* enrich_data called directly; the handler takes no part
Next ==
    \/ EnrichEnter
    \/ EnrichIterate
    \/ EnrichReturn
    \/ CallAgain
    \/ RestartAndCall

Spec == Init /\ [][Next]_vars

-----------------------------------------------------------------------------
(* run_scrapper *)

\* raise HTTPException(status_code=code, ...) leaving the handler
HandlerFails(code) ==
    /\ hpc' = "failed"
    /\ status' = code

\* SKRAPER_PATH.exists(), is_file() and os.access(..., X_OK)
HandlerCheckBinary ==
    /\ hpc = "binary"
    /\ \E binary \in {"missing", "not_executable", "ok"} :
          IF binary = "ok"
          THEN hpc' = "subprocess" /\ UNCHANGED status
          ELSE HandlerFails(500)
    /\ UNCHANGED <<media_only, file_exists, file_written, json_data, remove_called, response>>
    /\ UNCHANGED <<data, pc, i, enriched_items, sentiment_scores, text_content, result, error>>
    /\ UNCHANGED <<hashseed, calls, prev>>

\* subprocess.run(cmd, timeout=60) and the return-code check; the scraper
\* may or may not have written its JSON file
HandlerRunSubprocess ==
    /\ hpc = "subprocess"
    /\ \E outcome \in {"timeout", "error_lines", "ran"}, written \in BOOLEAN :
          /\ file_written' = written
          /\ file_exists' = written
          /\ IF outcome = "timeout" THEN HandlerFails(504)
             ELSE IF outcome = "error_lines" THEN HandlerFails(500)
             ELSE hpc' = "parse" /\ UNCHANGED status
    /\ UNCHANGED <<media_only, json_data, remove_called, response>>
    /\ UNCHANGED <<data, pc, i, enriched_items, sentiment_scores, text_content, result, error>>
    /\ UNCHANGED <<hashseed, calls, prev>>

\* search of the output for "has been written to", the media_only check and
\* the file_path check
HandlerParsePath ==
    /\ hpc = "parse"
    /\ \E path_found \in BOOLEAN :
          IF media_only THEN HandlerFails(400)
          ELSE IF ~path_found THEN HandlerFails(500)
          ELSE hpc' = "read" /\ UNCHANGED status
    /\ UNCHANGED <<media_only, file_exists, file_written, json_data, remove_called, response>>
    /\ UNCHANGED <<data, pc, i, enriched_items, sentiment_scores, text_content, result, error>>
    /\ UNCHANGED <<hashseed, calls, prev>>

\* payloads json.load can produce: every dict key is a string
JsonInputs ==
    { d \in Inputs : \A k \in 1..Len(d.elems) : d.elems[k].extra # "int" }

\* open(file_path) and json.load under the encodings, the binary fallback and
\* the "json_data is None" check
HandlerReadJson ==
    /\ hpc = "read"
    /\ IF ~file_exists
       THEN HandlerFails(500) /\ UNCHANGED json_data
       ELSE \E outcome \in {"permission_denied", "invalid_json", "decoded"} :
               IF outcome # "decoded"
               THEN HandlerFails(500) /\ UNCHANGED json_data
               ELSE \E j \in JsonInputs :
                       IF j.kind = "null"
                       THEN HandlerFails(422) /\ UNCHANGED json_data
                       ELSE /\ json_data' = j
                            /\ hpc' = "enrich"
                            /\ UNCHANGED status
    /\ UNCHANGED <<media_only, file_exists, file_written, remove_called, response>>
    /\ UNCHANGED <<data, pc, i, enriched_items, sentiment_scores, text_content, result, error>>
    /\ UNCHANGED <<hashseed, calls, prev>>

\* enrich_data(json_data) is called
HandlerCallEnrich ==
    /\ hpc = "enrich"
    /\ hpc' = "enriching"
    /\ data' = json_data
    /\ pc' = "call"
    /\ UNCHANGED <<i, enriched_items, sentiment_scores, text_content, result, error>>
    /\ UNCHANGED <<media_only, file_exists, file_written, json_data, remove_called,
                   status, response>>
    /\ UNCHANGED <<hashseed, calls, prev>>

\* enrich_data returned, or raised: "except Exception" turns it into a
\* ValueError, which the outer handler answers with 422
HandlerAfterEnrich ==
    /\ hpc = "enriching"
    /\ pc \in {"returned", "raised"}
    /\ IF pc = "returned"
       THEN hpc' = "remove" /\ UNCHANGED status
       ELSE HandlerFails(422)
    /\ UNCHANGED <<media_only, file_exists, file_written, json_data, remove_called, response>>
    /\ UNCHANGED <<data, pc, i, enriched_items, sentiment_scores, text_content, result, error>>
    /\ UNCHANGED <<hashseed, calls, prev>>

\* variant: the OSError of os.remove is not caught where it is raised
HandlerRemoveUncaught ==
    /\ hpc = "remove"
    /\ remove_called' = TRUE
    /\ \E removed \in BOOLEAN :
          /\ file_exists' = IF removed THEN FALSE ELSE file_exists
          /\ IF removed THEN hpc' = "respond" /\ UNCHANGED status
             ELSE HandlerFails(500)
    /\ UNCHANGED <<media_only, file_written, json_data, response>>
    /\ UNCHANGED <<data, pc, i, enriched_items, sentiment_scores, text_content, result, error>>
    /\ UNCHANGED <<hashseed, calls, prev>>

\* os.remove(file_path) inside try/except OSError
HandlerRemove ==
    /\ hpc = "remove"
    /\ remove_called' = TRUE
    /\ \E removed \in BOOLEAN :
          file_exists' = IF removed THEN FALSE ELSE file_exists
    /\ hpc' = "respond"
    /\ UNCHANGED <<media_only, file_written, json_data, status, response>>
    /\ UNCHANGED <<data, pc, i, enriched_items, sentiment_scores, text_content, result, error>>
    /\ UNCHANGED <<hashseed, calls, prev>>

\* the dictionary returned on success
SuccessResponse(enriched) ==
    [success |-> TRUE, scraped_data |-> enriched, actual_items |-> enriched.total_items]

HandlerRespond ==
    /\ hpc = "respond"
    /\ response' = SuccessResponse(result)
    /\ status' = 200
    /\ hpc' = "done"
    /\ UNCHANGED <<media_only, file_exists, file_written, json_data, remove_called>>
    /\ UNCHANGED <<data, pc, i, enriched_items, sentiment_scores, text_content, result, error>>
    /\ UNCHANGED <<hashseed, calls, prev>>

InitHandler ==
    /\ hpc = "binary"
    /\ media_only \in BOOLEAN
    /\ hashseed \in HashSeeds
    /\ data = NonList("null")
    /\ pc = "idle"
    /\ i = 0
    /\ enriched_items = <<>>
    /\ sentiment_scores = <<>>
    /\ text_content = Str("")
    /\ result = NoResult
    /\ error = "none"
    /\ calls = 1
    /\ prev = NoOutcome
    /\ file_exists = FALSE
    /\ file_written = FALSE
    /\ json_data = NonList("null")
    /\ remove_called = FALSE
    /\ status = 0
    /\ response = NoResponse

NextHandler ==
    \/ HandlerCheckBinary
    \/ HandlerRunSubprocess
    \/ HandlerParsePath
    \/ HandlerReadJson
    \/ HandlerCallEnrich
    \/ EnrichEnter
    \/ EnrichIterate
    \/ EnrichReturn
    \/ HandlerAfterEnrich
    \/ HandlerRemove
    \/ HandlerRespond

SpecHandler == InitHandler /\ [][NextHandler]_vars

-----------------------------------------------------------------------------
(* Vocabulary of the properties *)

\* the dict elements of a sequence of elements, in order
RECURSIVE Mappings(_)
Mappings(es) ==
    IF es = <<>> THEN <<>>
    ELSE IF Head(es).kind = "dict" THEN <<Head(es)>> \o Mappings(Tail(es))
    ELSE Mappings(Tail(es))

Consumed == SubSeq(data.elems, 1, i)

Originals(items) == [k \in 1..Len(items) |-> items[k].original_item]

\* "no value": the key is absent, or its value is null or the empty string
NoValue(v) == v.kind \in {"absent", "null"} \/ (v.kind = "str" /\ v.s = "")

\* every candidate field of the record is absent, null or a string
StringLike(item) ==
    \A k \in 1..Len(CandidateKeys) : item.f[CandidateKeys[k]].kind \in {"absent", "null", "str"}

HasValue(item) == \E k \in 1..Len(CandidateKeys) : ~NoValue(item.f[CandidateKeys[k]])

FirstValueKey(item) ==
    CHOOSE k \in 1..Len(CandidateKeys) :
        /\ ~NoValue(item.f[CandidateKeys[k]])
        /\ \A j \in 1..(k - 1) : NoValue(item.f[CandidateKeys[j]])

\* the canonical text as the specification defines it
CanonicalText(item) ==
    IF HasValue(item) THEN item.f[CandidateKeys[FirstValueKey(item)]] ELSE Str("")

\* the record has text and every step of its analysis completes
Analysable(item) ==
    /\ item.kind = "dict"
    /\ Truthy(TextContent(item))
    /\ AnalysisSucceeds(item, TextContent(item))

\* the record has no text, or its analysis raises
Degraded(item) == item.kind = "dict" /\ ~Analysable(item)

\* polarities (units of 1e-4) of the analysable records, in order
RECURSIVE AnalysableScores(_)
AnalysableScores(es) ==
    IF es = <<>> THEN <<>>
    ELSE IF Analysable(Head(es))
         THEN <<Polarity(TextContent(Head(es)).s)>> \o AnalysableScores(Tail(es))
         ELSE AnalysableScores(Tail(es))

\* sentiments (thousandths) reported in the items of the analysable records
RECURSIVE ReportedSentiments(_)
ReportedSentiments(items) ==
    IF items = <<>> THEN <<>>
    ELSE IF Analysable(Head(items).original_item)
         THEN <<Head(items).sentiment>> \o ReportedSentiments(Tail(items))
         ELSE ReportedSentiments(Tail(items))

\* no record of the input raises after its score joined the accumulator
ContributorsSucceed ==
    \A k \in 1..Len(data.elems) :
        LET item == data.elems[k]
        IN (item.kind = "dict" /\ Truthy(TextContent(item)))
               => ~RaisesAfterAppend(item, TextContent(item))

NoDuplicates(q) == \A a, b \in 1..Len(q) : q[a] = q[b] => a = b

QualifyingChunks(s) ==
    { Lower(NounChunks(s)[k]) : k \in { j \in 1..Len(NounChunks(s)) : Len(NounChunks(s)[j]) > 2 } }

Min(a, b) == IF a < b THEN a ELSE b

Range(q) == { q[k] : k \in 1..Len(q) }

\* two item lists with the same content, keyword lists compared as sets
SameItems(xs, ys) ==
    /\ Len(xs) = Len(ys)
    /\ \A k \in 1..Len(xs) :
          /\ xs[k].original_item = ys[k].original_item
          /\ xs[k].sentiment = ys[k].sentiment
          /\ xs[k].entities = ys[k].entities
          /\ Range(xs[k].keywords) = Range(ys[k].keywords)

-----------------------------------------------------------------------------
(* Properties *)

\* C1: average_sentiment of a returned result is computed only from the
\* records with non-empty text whose analysis step completed; a record whose
\* analysis raises shows sentiment 0.0 and leaves the average as if absent.
C1_AverageOnlyFromAnalysed ==
    pc = "returned" =>
        /\ result.average_sentiment =
              (IF AnalysableScores(data.elems) = <<>> THEN 0
               ELSE Round3(Sum(AnalysableScores(data.elems)), Len(AnalysableScores(data.elems))))
        /\ \A k \in 1..Len(result.items) :
              Degraded(result.items[k].original_item) => result.items[k].sentiment = 0

\* C2: with a list as input enrich_data never leaves by an exception.
C2_ListInputNeverRaises ==
    data.kind = "list" => pc # "raised"

\* C3: the items are, in order, the dict elements consumed so far, each kept
\* as original_item; non-dict elements yield nothing; total_items is the
\* number of items, which is the number of dict elements of the input.
C3_ItemsMirrorMappings ==
    /\ pc = "loop" => Originals(enriched_items) = Mappings(Consumed)
    /\ pc = "returned" =>
          /\ Originals(result.items) = Mappings(data.elems)
          /\ result.total_items = Len(result.items)
          /\ result.total_items = Len(Mappings(data.elems))

C3_Witness ==
    /\ pc = "returned"
    /\ Len(data.elems) = 3
    /\ result.total_items = 2
    /\ data.elems[2].kind # "dict"
    /\ Degraded(data.elems[1])
    /\ Analysable(data.elems[3])

\* C4: an input that is not a list makes the call raise ValueError before
\* any element is consumed: no item, no analysed text, no result.
C4_NonListFailsFirst ==
    (data.kind # "list" /\ pc \notin {"idle", "call"}) =>
        /\ pc = "raised"
        /\ error = "ValueError"
        /\ i = 0
        /\ enriched_items = <<>>
        /\ sentiment_scores = <<>>
        /\ result = NoResult

C4_Witness ==
    /\ pc = "raised"
    /\ data.kind = "dict"
    /\ error = "ValueError"

\* C5: for a record whose candidate fields are absent, null or strings,
\* text_content is the value of the first of text, content, description,
\* title that has a value, the empty string if none has; the record kept in
\* the item is the input record.
C5_FirstNonEmptyCandidate ==
    (pc = "loop" /\ i > 0 /\ data.elems[i].kind = "dict" /\ StringLike(data.elems[i])) =>
        /\ text_content = CanonicalText(data.elems[i])
        /\ enriched_items[Len(enriched_items)].original_item = data.elems[i]

C5_Witness ==
    /\ pc = "loop"
    /\ i = 1
    /\ data.elems[1].kind = "dict"
    /\ data.elems[1].f["text"] = Null
    /\ data.elems[1].f["content"] = Str("")
    /\ data.elems[1].f["description"] = Str("many")
    /\ data.elems[1].f["title"] = Str("late")
    /\ text_content = Str("many")

\* C6: a dict record without text, or whose analysis raises, yields the
\* zero-value item and the loop goes on.
C6_DegradedYieldsZeroItem ==
    (data.kind = "list" /\ pc \in {"loop", "raised"} /\ i > 0 /\ Degraded(data.elems[i])) =>
        /\ pc = "loop"
        /\ enriched_items # <<>>
        /\ enriched_items[Len(enriched_items)] = ZeroItem(data.elems[i])

C8_SecondCallIdentical ==
    (calls = 2 /\ pc \in {"returned", "raised"}) =>
        /\ pc = prev.pc
        /\ error = prev.error
        /\ result.total_items = prev.result.total_items
        /\ result.average_sentiment = prev.result.average_sentiment
        /\ SameItems(result.items, prev.result.items)

\* C9 as stated: when every contributing record is analysed successfully,
\* average_sentiment is the mean of the sentiments reported in the items of
\* those records (each rounded to 3 decimals), rounded to 3 decimals.
C9_AverageOfReportedSentiments ==
    (pc = "returned" /\ ContributorsSucceed) =>
        result.average_sentiment =
            (IF ReportedSentiments(result.items) = <<>> THEN 0
             ELSE Round3(Decimals * Sum(ReportedSentiments(result.items)),
                         Len(ReportedSentiments(result.items))))

\* C9 amended: when every contributing record is analysed successfully,
\* average_sentiment is the mean of the unrounded polarities of those
\* records, rounded once to 3 decimals; 0.0 when no record contributes, and
\* the empty list gives items [], total_items 0, average_sentiment 0.0.
C9_AverageOfRawPolarities ==
    (pc = "returned" /\ ContributorsSucceed) =>
        /\ result.average_sentiment =
              (IF AnalysableScores(data.elems) = <<>> THEN 0
               ELSE Round3(Sum(AnalysableScores(data.elems)), Len(AnalysableScores(data.elems))))
        /\ data.elems = <<>> =>
              result = [items |-> <<>>, total_items |-> 0, average_sentiment |-> 0]

C9_Witness ==
    /\ pc = "returned"
    /\ ContributorsSucceed
    /\ Len(AnalysableScores(data.elems)) = 3
    /\ result.average_sentiment #
           Round3(Decimals * Sum(ReportedSentiments(result.items)), 3)

\* C10: os.remove is called only after the file was decoded and enrich_data
\* returned, and always before the success response is built; whether the
\* removal succeeds does not change the response; every failing path raises
\* without calling os.remove and leaves the file as the scraper wrote it,
\* and a payload that is not a list is answered with 422.
C10_RemovalOnlyAfterEnrichment ==
    /\ remove_called => (pc = "returned" /\ data = json_data /\ json_data.kind = "list")
    /\ remove_called <=> hpc \in {"respond", "done"}
    /\ hpc = "done" =>
          /\ status = 200
          /\ response = SuccessResponse(result)
          /\ response.success
    /\ hpc # "done" => response = NoResponse
    /\ hpc = "failed" =>
          /\ ~remove_called
          /\ file_exists = file_written
          /\ status \in {400, 422, 500, 504}
    /\ (hpc = "failed" /\ pc = "raised") => status = 422
    /\ (hpc \in {"enriching", "remove", "respond", "done", "failed"} /\ pc # "idle"
           /\ json_data.kind # "list") => pc \in {"call", "raised"}

C10_Witness ==
    /\ hpc = "done"
    /\ remove_called
    /\ file_exists
    /\ response.success
    /\ response.actual_items = 2

====
